---- MODULE Spec2Model ----
(***************************************************************************)
(* Model of bank_statement_analysis/app.py: the Streamlit script that      *)
(* extracts the text of uploaded PDF bank statements (extract_pdf_text),   *)
(* sends it to an Ollama chat endpoint and turns the answer into a result  *)
(* object (process_bank_transactions), and renders that result.            *)
(*                                                                         *)
(* A Python str whose characters matter (the model's content) is a         *)
(* sequence of lexical tokens; json.loads is a recursive-descent parser    *)
(* over the tokens.  A float is an integer number of minor units.          *)
(***************************************************************************)
EXTENDS Integers, Sequences, FiniteSets, TLC

\* ------------------------------------------------------------------ bounds
MaxFiles == 2      \* files of one upload
NDocs == 2         \* distinct PDF documents with text (document 0 has none)
MaxTx == 2         \* transactions of one statement the service answers with
TickSeconds == 100 \* seconds that pass in one step of the clock

\* ------------------------------------------------------- JSON values, str
JNull == [t |-> "null"]
JBool(b) == [t |-> "bool", b |-> b]
JNum(n) == [t |-> "num", n |-> n]
JStr(s) == [t |-> "str", s |-> s]
\* a str given by its characters, as the tokens they lex to
JText(toks) == [t |-> "text", toks |-> toks]
JArr(a) == [t |-> "arr", a |-> a]
JObj(f) == [t |-> "obj", f |-> f]

IsStr(v) == v.t \in {"str", "text"}

\* tokens of a JSON text
TPunct(c) == [k |-> c]
TStr(s) == [k |-> "str", s |-> s]
TNum(n) == [k |-> "num", n |-> n]
TWord(s) == [k |-> "word", s |-> s]

\* the tokens of a str: an atomic str is one bare word
Lex(v) == IF v.t = "text" THEN v.toks ELSE <<TWord(v.s)>>

\* ------------------------------------------------------------- exceptions
Exc(cls, str) == [cls |-> cls, str |-> str]
Ret(v) == [c |-> "return", v |-> v]
Raise(e) == [c |-> "raise", e |-> e]

\* the classes an exception class is an instance of
Bases(cls) ==
    CASE cls = "ConnectTimeout" ->
           {"ConnectTimeout", "ConnectionError", "Timeout", "RequestException", "Exception"}
      [] cls = "ReadTimeout" ->
           {"ReadTimeout", "Timeout", "RequestException", "Exception"}
      [] cls = "ConnectionError" ->
           {"ConnectionError", "RequestException", "Exception"}
      [] cls = "HTTPError" ->
           {"HTTPError", "RequestException", "Exception"}
      [] cls = "ChunkedEncodingError" ->
           {"ChunkedEncodingError", "RequestException", "Exception"}
      [] cls = "requests.JSONDecodeError" ->
           {"requests.JSONDecodeError", "InvalidJSONError", "RequestException",
            "json.JSONDecodeError", "ValueError", "Exception"}
      [] cls = "json.JSONDecodeError" ->
           {"json.JSONDecodeError", "ValueError", "Exception"}
      [] cls = "KeyError" -> {"KeyError", "LookupError", "Exception"}
      [] cls = "TypeError" -> {"TypeError", "Exception"}
      [] cls = "ValueError" -> {"ValueError", "Exception"}
      [] cls = "FileNotFoundError" -> {"FileNotFoundError", "OSError", "Exception"}
      [] OTHER -> {cls}

IsInstance(e, cls) == cls \in Bases(e.cls)

\* ------------------------------------------------------------ Python ops
\* key in v
Contains(v, key) ==
    CASE v.t = "obj" -> Ret(key \in DOMAIN v.f)
      [] v.t = "arr" -> Ret(\E i \in DOMAIN v.a : v.a[i] = JStr(key))
      [] v.t = "str" -> Ret(v.s = key)
      [] v.t = "text" -> Ret(\E i \in DOMAIN v.toks : v.toks[i] = TWord(key))
      [] OTHER -> Raise(Exc("TypeError", "argument is not iterable"))

\* v[key], key a str
GetItem(v, key) ==
    CASE v.t = "obj" -> IF key \in DOMAIN v.f
                        THEN Ret(v.f[key])
                        ELSE Raise(Exc("KeyError", key))
      [] v.t \in {"arr", "str", "text"} ->
           Raise(Exc("TypeError", "indices must be integers"))
      [] OTHER -> Raise(Exc("TypeError", "object is not subscriptable"))

\* bool(v)
Truthy(v) ==
    CASE v.t = "null" -> FALSE
      [] v.t = "bool" -> v.b
      [] v.t = "num" -> v.n # 0
      [] v.t = "str" -> v.s # ""
      [] v.t = "text" -> v.toks # <<>>
      [] v.t = "arr" -> v.a # <<>>
      [] v.t = "obj" -> DOMAIN v.f # {}

\* ------------------------------------------------------------ json.loads
POk(v, i) == [ok |-> TRUE, v |-> v, i |-> i]
PFail == [ok |-> FALSE, v |-> JNull, i |-> 0]

RECURSIVE ParseValue(_, _), ParsePairs(_, _, _), ParseElements(_, _, _)
RECURSIVE ParseElements_Reversed(_, _, _)

\* the value that starts at token i, and the index after it
ParseValue(toks, i) ==
    IF i > Len(toks) THEN PFail
    ELSE LET tk == toks[i] IN
         CASE tk.k = "str" -> POk(JStr(tk.s), i + 1)
           [] tk.k = "num" -> POk(JNum(tk.n), i + 1)
           [] tk.k = "word" ->
                IF tk.s = "null" THEN POk(JNull, i + 1)
                ELSE IF tk.s = "true" THEN POk(JBool(TRUE), i + 1)
                ELSE IF tk.s = "false" THEN POk(JBool(FALSE), i + 1)
                ELSE PFail
           [] tk.k = "{" ->
                IF i + 1 <= Len(toks) /\ toks[i + 1].k = "}"
                THEN POk(JObj(<<>>), i + 2)
                ELSE ParsePairs(toks, i + 1, <<>>)
           [] tk.k = "[" ->
                IF i + 1 <= Len(toks) /\ toks[i + 1].k = "]"
                THEN POk(JArr(<<>>), i + 2)
                ELSE ParseElements(toks, i + 1, <<>>)
           [] OTHER -> PFail

\* f with key mapped to v
Put(f, key, v) == [k \in DOMAIN f \cup {key} |-> IF k = key THEN v ELSE f[k]]

\* ({e : x \in {v}} below names the value of v once, as x)

\* the pairs of an object from token i on; acc holds the pairs read so far,
\* and a repeated key keeps its last value
ParsePairs(toks, i, acc) ==
    IF i + 2 > Len(toks) THEN PFail
    ELSE IF toks[i].k # "str" \/ toks[i + 1].k # ":" THEN PFail
    ELSE CHOOSE out \in UNION {
           {IF ~r.ok \/ r.i > Len(toks) THEN PFail
            ELSE IF toks[r.i].k = "," THEN ParsePairs(toks, r.i + 1, acc2)
            ELSE IF toks[r.i].k = "}" THEN POk(JObj(acc2), r.i + 1)
            ELSE PFail
              : acc2 \in {Put(acc, toks[i].s, r.v)}}
                : r \in {ParseValue(toks, i + 2)}} : TRUE

\* the elements of an array, each put before the ones read so far
ParseElements_Reversed(toks, i, acc) ==
    CHOOSE out \in UNION {
      {IF ~r.ok \/ r.i > Len(toks) THEN PFail
       ELSE IF toks[r.i].k = "," THEN ParseElements_Reversed(toks, r.i + 1, acc2)
       ELSE IF toks[r.i].k = "]" THEN POk(JArr(acc2), r.i + 1)
       ELSE PFail
         : acc2 \in {<<r.v>> \o acc}}
           : r \in {ParseValue(toks, i)}} : TRUE

\* the elements of an array from token i on, in the order read
ParseElements(toks, i, acc) ==
    CHOOSE out \in UNION {
      {IF ~r.ok \/ r.i > Len(toks) THEN PFail
       ELSE IF toks[r.i].k = "," THEN ParseElements(toks, r.i + 1, acc2)
       ELSE IF toks[r.i].k = "]" THEN POk(JArr(acc2), r.i + 1)
       ELSE PFail
         : acc2 \in {Append(acc, r.v)}}
           : r \in {ParseValue(toks, i)}} : TRUE

\* json.loads(content): a str is parsed whole; anything else is a TypeError
json_loads(content) ==
    IF ~IsStr(content)
    THEN Raise(Exc("TypeError", "the JSON object must be str, bytes or bytearray"))
    ELSE CHOOSE out \in
           {IF r.ok /\ r.i = Len(Lex(content)) + 1
            THEN Ret(r.v)
            ELSE Raise(Exc("json.JSONDecodeError", "Expecting value"))
              : r \in {ParseValue(Lex(content), 1)}} : TRUE

\* ------------------------------------------------------------ the schema
\* field -> type of each pydantic model
AccountHolder == [name |-> "str", account_number |-> "str"]
Transaction == [date |-> "str", amount |-> "float", currency |-> "str",
                type |-> "str", description |-> "str", balance |-> "float"]
BankStatement == [account_holder |-> "AccountHolder", transactions |-> "List[Transaction]"]

\* BankStatement.model_json_schema()
model_json_schema ==
    [title |-> "BankStatement",
     properties |-> BankStatement,
     required |-> DOMAIN BankStatement,
     defs |-> [AccountHolder |-> [properties |-> AccountHolder,
                                  required |-> DOMAIN AccountHolder],
               Transaction |-> [properties |-> Transaction,
                                required |-> DOMAIN Transaction]]]

SYSTEM_MESSAGE == "You are an advanced financial document parser ..."

\* ------------------------------------------- the inference service's side
\* The service is not part of the program: what follows enumerates what it
\* can answer.  Encode writes a value as the tokens of its JSON text.
KeyOrder == <<"account_holder", "name", "account_number", "transactions", "date",
              "amount", "currency", "type", "description", "balance">>

RECURSIVE Encode(_), EncodePairs(_, _), EncodeElements(_, _)

Encode(v) ==
    CASE v.t = "null" -> <<TWord("null")>>
      [] v.t = "bool" -> <<TWord(IF v.b THEN "true" ELSE "false")>>
      [] v.t = "num" -> <<TNum(v.n)>>
      [] v.t = "str" -> <<TStr(v.s)>>
      [] v.t = "arr" -> <<TPunct("[")>> \o EncodeElements(v.a, 1) \o <<TPunct("]")>>
      [] v.t = "obj" ->
           <<TPunct("{")>>
           \o EncodePairs(v.f, SelectSeq(KeyOrder, LAMBDA k : k \in DOMAIN v.f))
           \o <<TPunct("}")>>

EncodePairs(f, keys) ==
    IF keys = <<>> THEN <<>>
    ELSE <<TStr(Head(keys)), TPunct(":")>> \o Encode(f[Head(keys)])
         \o (IF Len(keys) > 1 THEN <<TPunct(",")>> ELSE <<>>)
         \o EncodePairs(f, Tail(keys))

EncodeElements(a, i) ==
    IF i > Len(a) THEN <<>>
    ELSE Encode(a[i]) \o (IF i < Len(a) THEN <<TPunct(",")>> ELSE <<>>)
         \o EncodeElements(a, i + 1)

Holder == JObj([name |-> JStr("Jane Doe"), account_number |-> JStr("1234567890")])

Tx(date, amount, type, description, balance) ==
    JObj([date |-> JStr(date), amount |-> amount, currency |-> JStr("INR"),
          type |-> JStr(type), description |-> JStr(description), balance |-> JNum(balance)])

Salary == Tx("01-05-2024", JNum(500), "CREDIT", "Salary", 1500)
Coffee == Tx("02-05-2024", JNum(20), "DEBIT", "Coffee", 1480)

Statement(txs) == JObj([account_holder |-> Holder, transactions |-> JArr(txs)])

\* the statements that match the schema: up to MaxTx transactions, any order
TxSeqs == UNION {[1..n -> {Salary, Coffee}] : n \in 0..MaxTx}
Statements == {Statement(txs) : txs \in TxSeqs}

\* structured data that parses and breaks the schema
NoHolder == JObj([transactions |-> JArr(<<Salary>>)])
BadType == Statement(<<Tx("03-05-2024", JNum(75), "TRANSFER", "Rent", 1405)>>)
BadAmount == Statement(<<Tx("04-05-2024", JStr("abc"), "DEBIT", "Fee", 1400)>>)
SchemaViolations == {NoHolder, BadType, BadAmount}

\* other structured data: empty values, and the nesting the system message shows
Nested == JObj([transactions |-> Statement(<<Salary>>)])
OtherData == {JObj(<<>>), JNull, JArr(<<>>), JNum(0), Nested}

\* texts that are not JSON
NotValidJson == <<TWord("not"), TWord("valid"), TWord("json")>>
Truncated == SubSeq(Encode(Statement(<<Salary>>)), 1, Len(Encode(Statement(<<Salary>>))) - 1)
ExtraData == Encode(Statement(<<>>)) \o <<TPunct("}")>>
TrailingComma == <<TPunct("["), TNum(1), TPunct(","), TPunct("]")>>
BadTexts == {NotValidJson, <<>>, Truncated, ExtraData, TrailingComma}

\* message.content: a str, or something that is no str
Contents ==
    {JText(Encode(v)) : v \in Statements \cup SchemaViolations \cup OtherData}
    \cup {JText(toks) : toks \in BadTexts}
    \cup {JNull, JNum(7), Statement(<<Salary>>)}

Messages ==
    {JNull, JStr("content"), JArr(<<>>), JObj(<<>>), JObj([role |-> JStr("assistant")])}
    \cup {JObj([role |-> JStr("assistant"), content |-> c]) : c \in Contents}

\* the JSON bodies of a response
Bodies ==
    {JNull, JNum(7), JStr("message"), JStr("ok"), JArr(<<>>), JArr(<<JStr("message")>>),
     JObj(<<>>), JObj([error |-> JStr("model not found")])}
    \cup {JObj([model |-> JStr("phi4"), message |-> m]) : m \in Messages}

NotJson == [t |-> "notjson"]

\* what requests.post can end with, the timeouts apart
Responses ==
    {[status |-> 200, body |-> b] : b \in Bodies \cup {NotJson}}
    \cup {[status |-> st, body |-> JObj([error |-> JStr("model not found")])] : st \in {404, 500}}

PostExceptions == {Exc("ConnectionError", "Connection refused"),
                   Exc("ChunkedEncodingError", "Connection broken")}
TimeoutExceptions == {Exc("ConnectTimeout", "connect timeout=300"),
                      Exc("ReadTimeout", "read timeout=300")}

\* the PDF documents a user can upload, each named by its bytes
Docs == 0..NDocs
Uploads == UNION {[1..n -> Docs] : n \in 1..MaxFiles}

\* text_from_rendered(converter(file)): the text Marker finds in a document
PdfText(bytes) == IF bytes = 0 THEN <<>> ELSE <<bytes>>

\* the environments the server can be started in
Envs == {<<>>, [OLLAMA_HOST |-> "localhost"]}

\* -------------------------------------------------------------- the state
Sessions == {1, 2}

VARIABLES
    env,             \* os.environ
    temp_pdf,        \* the file temp.pdf of the working directory
    last_request,    \* history: text, url and payload of the invocation before
    pc,              \* where each session's script run is
    uploaded_files,
    file_idx,        \* index of the file extract_pdf_text is at
    text,            \* extract_pdf_text's text
    extracted_text,
    url,
    payload,
    elapsed,         \* seconds the request has waited
    requests_sent,   \* requests sent in this run
    response,        \* how requests.post ended: Ret(response) or Raise(exception)
    response_data,
    result,
    raised,          \* the exception that ended the run
    shown            \* what Streamlit shows, in order

vars == <<env, temp_pdf, last_request, pc, uploaded_files, file_idx, text, extracted_text,
          url, payload, elapsed, requests_sent, response, response_data, result,
          raised, shown>>

extract_vars == <<uploaded_files, file_idx, text, extracted_text>>
request_vars == <<url, payload, elapsed, requests_sent, response, response_data>>

None == [t |-> "None"]
NoFile == [exists |-> FALSE, bytes |-> 0]
File(bytes) == [exists |-> TRUE, bytes |-> bytes]
timeout == 300

Fresh(v) == [s \in Sessions |-> v]

Init ==
    /\ env \in Envs
    /\ temp_pdf = NoFile
    /\ last_request = None
    /\ pc = Fresh("idle")
    /\ uploaded_files = Fresh(<<>>)
    /\ file_idx = Fresh(0)
    /\ text = Fresh(<<>>)
    /\ extracted_text = Fresh(<<>>)
    /\ url = Fresh(<<>>)
    /\ payload = Fresh(None)
    /\ elapsed = Fresh(0)
    /\ requests_sent = Fresh(0)
    /\ response = Fresh(None)
    /\ response_data = Fresh(None)
    /\ result = Fresh(<<>>)
    /\ raised = Fresh(None)
    /\ shown = Fresh(<<>>)

\* -------------------------------------------------------- extract_pdf_text
\* a run starts: the uploader holds one of the uploads ups, and
\* extract_pdf_text is entered
Upload(s, ups) ==
    /\ pc[s] = "idle"
    /\ \E files \in ups : uploaded_files' = [uploaded_files EXCEPT ![s] = files]
    /\ text' = [text EXCEPT ![s] = <<>>]
    /\ file_idx' = [file_idx EXCEPT ![s] = 1]
    /\ pc' = [pc EXCEPT ![s] = "write"]
    /\ UNCHANGED <<env, temp_pdf, last_request, extracted_text, request_vars,
                   result, raised, shown>>

\* with open("temp.pdf", "wb") as f: f.write(uploaded_file.getvalue())
WriteTemp(s) ==
    /\ pc[s] = "write"
    /\ temp_pdf' = File(uploaded_files[s][file_idx[s]])
    /\ pc' = [pc EXCEPT ![s] = "convert"]
    /\ UNCHANGED <<env, last_request, extract_vars, request_vars, result, raised, shown>>

\* rendered = converter("temp.pdf"); text += text_from_rendered(rendered)
Convert(s) ==
    /\ pc[s] = "convert"
    /\ IF temp_pdf.exists
       THEN /\ text' = [text EXCEPT ![s] = @ \o PdfText(temp_pdf.bytes)]
            /\ file_idx' = [file_idx EXCEPT ![s] = @ + 1]
            /\ pc' = [pc EXCEPT ![s] =
                         IF file_idx[s] < Len(uploaded_files[s]) THEN "write" ELSE "remove"]
            /\ UNCHANGED raised
       ELSE /\ raised' = [raised EXCEPT ![s] = Exc("FileNotFoundError", "temp.pdf")]
            /\ pc' = [pc EXCEPT ![s] = "crashed"]
            /\ UNCHANGED <<text, file_idx>>
    /\ UNCHANGED <<env, temp_pdf, last_request, uploaded_files, extracted_text,
                   request_vars, result, shown>>

\* os.remove("temp.pdf"); return text
Remove(s) ==
    /\ pc[s] = "remove"
    /\ IF temp_pdf.exists
       THEN /\ temp_pdf' = NoFile
            /\ extracted_text' = [extracted_text EXCEPT ![s] = text[s]]
            /\ pc' = [pc EXCEPT ![s] = "build"]
            /\ UNCHANGED raised
       ELSE /\ raised' = [raised EXCEPT ![s] = Exc("FileNotFoundError", "temp.pdf")]
            /\ pc' = [pc EXCEPT ![s] = "crashed"]
            /\ UNCHANGED <<temp_pdf, extracted_text>>
    /\ UNCHANGED <<env, last_request, uploaded_files, file_idx, text, request_vars,
                   result, shown>>

\* ------------------------------------------------ process_bank_transactions
\* os.getenv(name, default)
getenv(name, default) == IF name \in DOMAIN env THEN env[name] ELSE default

\* the f-string of the url
BuildUrl(ollama_host) == <<"http://", ollama_host, ":11434/api/chat">>

\* the payload with the text of the request before kept in the conversation
BuildPayload_WithHistory(document) ==
    [model |-> "phi4",
     messages |-> <<[role |-> "system", content |-> SYSTEM_MESSAGE],
                    [role |-> "user",
                     content |-> IF last_request = None THEN document
                                 ELSE last_request.text \o document]>>,
     format |-> model_json_schema,
     stream |-> FALSE]

\* the payload dict
BuildPayload(document) ==
    [model |-> "phi4",
     messages |-> <<[role |-> "system", content |-> SYSTEM_MESSAGE],
                    [role |-> "user", content |-> document]>>,
     format |-> model_json_schema,
     stream |-> FALSE]

\* response.raise_for_status()
raise_for_status(r) ==
    IF 400 <= r.status /\ r.status < 600
    THEN Raise(Exc("HTTPError", "Client or Server Error"))
    ELSE Ret(r)

\* response.json()
response_json(r) ==
    IF r.body = NotJson
    THEN Raise(Exc("requests.JSONDecodeError", "Expecting value"))
    ELSE Ret(r.body)

Error(parts) == [error |-> parts]

\* the first statements of the outer try, once requests.post has returned:
\* the body's data with a message, a result without one, or an exception
CheckResponse(r) ==
    LET status == raise_for_status(r)
        data == response_json(r)
        has == Contains(data.v, "message")
    IN  IF status.c = "raise" THEN status
        ELSE IF data.c = "raise" THEN data
        ELSE IF has.c = "raise" THEN has
        ELSE IF has.v THEN Ret([message |-> TRUE, data |-> data.v])
        ELSE Ret([message |-> FALSE,
                  result |-> Error(<<"Unexpected response format from model">>)])

\* the body of the inner try
InnerTry(data) ==
    LET message == GetItem(data, "message")
        content == GetItem(message.v, "content")
        transactions == json_loads(content.v)
    IN  IF message.c = "raise" THEN message
        ELSE IF content.c = "raise" THEN content
        ELSE IF transactions.c = "raise" THEN transactions
        ELSE Ret([data |-> transactions.v])

\* the inner handler written for the wrong exception class
ExceptInner_KeyError(e) ==
    IF IsInstance(e, "KeyError")
    THEN Ret([error |-> <<"Failed to parse model response as JSON">>])
    ELSE Raise(e)

\* except json.JSONDecodeError, around the inner try
ExceptInner(e) ==
    IF IsInstance(e, "json.JSONDecodeError")
    THEN Ret(Error(<<"Failed to parse model response as JSON">>))
    ELSE Raise(e)

\* the outer handlers without the last clause, except Exception
ExceptOuter_NoCatchAll(e) ==
    IF IsInstance(e, "Timeout")
    THEN Ret([error |-> <<"Request timed out connecting to Ollama">>])
    ELSE IF IsInstance(e, "ConnectionError")
    THEN Ret([error |-> <<"Failed to connect to Ollama server">>])
    ELSE Raise(e)

\* the except clauses of the outer try, in their order
ExceptOuter(e) ==
    IF IsInstance(e, "Timeout")
    THEN Ret(Error(<<"Request timed out connecting to Ollama">>))
    ELSE IF IsInstance(e, "ConnectionError")
    THEN Ret(Error(<<"Failed to connect to Ollama server">>))
    ELSE IF IsInstance(e, "Exception")
    THEN Ret(Error(<<"Unexpected error: ", e.str>>))
    ELSE Raise(e)

\* a completion of the outer try's body, through the outer handlers
Outer(c) == IF c.c = "raise" THEN ExceptOuter(c.e) ELSE c

\* a completion of the inner try's body, through the inner handler and then,
\* when that lets the exception through, the outer ones
Inner(c) == IF c.c = "raise" THEN Outer(ExceptInner(c.e)) ELSE c

\* the function's completion for each way requests.post can end: with a
\* response (Ret) or with an exception (Raise)
process_bank_transactions(post) ==
    IF post.c = "raise" THEN Outer(post)
    ELSE LET checked == CheckResponse(post.v)
         IN  IF checked.c = "raise" THEN Outer(checked)
             ELSE IF ~checked.v.message THEN Ret(checked.v.result)
             ELSE Inner(InnerTry(checked.v.data))

\* the function returns c's value, or c's exception leaves it
Finish(s, c) ==
    IF c.c = "return"
    THEN /\ result' = [result EXCEPT ![s] = c.v]
         /\ pc' = [pc EXCEPT ![s] = "returned"]
         /\ UNCHANGED raised
    ELSE /\ raised' = [raised EXCEPT ![s] = c.e]
         /\ pc' = [pc EXCEPT ![s] = "raised"]
         /\ UNCHANGED result

\* ollama_host, url and payload
Build(s) ==
    /\ pc[s] = "build"
    /\ url' = [url EXCEPT ![s] = BuildUrl(getenv("OLLAMA_HOST", "host.docker.internal"))]
    /\ payload' = [payload EXCEPT ![s] = BuildPayload(extracted_text[s])]
    /\ pc' = [pc EXCEPT ![s] = "post"]
    /\ UNCHANGED <<env, temp_pdf, last_request, extract_vars, elapsed, requests_sent,
                   response, response_data, result, raised, shown>>

\* requests.post(url, json=payload, timeout=300) sends the request
Post(s) ==
    /\ pc[s] = "post"
    /\ requests_sent' = [requests_sent EXCEPT ![s] = @ + 1]
    /\ elapsed' = [elapsed EXCEPT ![s] = 0]
    /\ pc' = [pc EXCEPT ![s] = "awaiting"]
    /\ UNCHANGED <<env, temp_pdf, last_request, extract_vars, url, payload,
                   response, response_data, result, raised, shown>>

\* a request sent without a timeout waits for ever
TimedOut_Never(waited) == FALSE

\* the wait is over once the timeout has passed
TimedOut(waited) == waited >= timeout

\* time passes while the request waits
Tick(s) ==
    /\ pc[s] = "awaiting"
    /\ elapsed[s] < timeout
    /\ elapsed' = [elapsed EXCEPT ![s] = @ + TickSeconds]
    /\ UNCHANGED <<env, temp_pdf, last_request, pc, extract_vars, url, payload,
                   requests_sent, response, response_data, result, raised, shown>>

\* requests.post raises a timeout
TimeoutExpires(s) ==
    /\ pc[s] = "awaiting"
    /\ TimedOut(elapsed[s])
    /\ \E e \in TimeoutExceptions :
          /\ response' = [response EXCEPT ![s] = Raise(e)]
          /\ Finish(s, Outer(Raise(e)))
    /\ UNCHANGED <<env, temp_pdf, last_request, extract_vars, url, payload, elapsed,
                   requests_sent, response_data, shown>>

\* requests.post raises something else
PostFails(s) ==
    /\ pc[s] = "awaiting"
    /\ \E e \in PostExceptions :
          /\ response' = [response EXCEPT ![s] = Raise(e)]
          /\ Finish(s, Outer(Raise(e)))
    /\ UNCHANGED <<env, temp_pdf, last_request, extract_vars, url, payload, elapsed,
                   requests_sent, response_data, shown>>

\* requests.post returns one of the responses rs
Respond(s, rs) ==
    /\ pc[s] = "awaiting"
    /\ \E r \in rs : response' = [response EXCEPT ![s] = Ret(r)]
    /\ pc' = [pc EXCEPT ![s] = "responded"]
    /\ UNCHANGED <<env, temp_pdf, last_request, extract_vars, url, payload, elapsed,
                   requests_sent, response_data, result, raised, shown>>

\* raise_for_status, response.json(), and the test for 'message'
ReadResponse(s) ==
    /\ pc[s] = "responded"
    /\ LET checked == CheckResponse(response[s].v)
       IN  IF checked.c = "raise" THEN /\ Finish(s, Outer(checked))
                                       /\ UNCHANGED response_data
           ELSE IF ~checked.v.message THEN /\ Finish(s, Ret(checked.v.result))
                                           /\ UNCHANGED response_data
           ELSE /\ response_data' = [response_data EXCEPT ![s] = checked.v.data]
                /\ pc' = [pc EXCEPT ![s] = "parse"]
                /\ UNCHANGED <<result, raised>>
    /\ UNCHANGED <<env, temp_pdf, last_request, extract_vars, url, payload, elapsed,
                   requests_sent, response, shown>>

\* the inner try: content, json.loads, return
ParseContent(s) ==
    /\ pc[s] = "parse"
    /\ Finish(s, Inner(InnerTry(response_data[s])))
    /\ UNCHANGED <<env, temp_pdf, last_request, extract_vars, request_vars, shown>>

\* ------------------------------------------------------------ the rendering
\* pd.DataFrame(x): the number of rows, or its ValueError
DataFrame(x) ==
    CASE x.t = "arr" -> Ret(Len(x.a))
      [] x.t = "null" -> Ret(0)
      [] x.t = "obj" ->
           IF DOMAIN x.f = {} THEN Ret(0)
           ELSE IF /\ \A k \in DOMAIN x.f : x.f[k].t = "arr"
                   /\ \A k, l \in DOMAIN x.f : Len(x.f[k].a) = Len(x.f[l].a)
           THEN Ret(Len(x.f[CHOOSE k \in DOMAIN x.f : TRUE].a))
           ELSE IF \A k \in DOMAIN x.f : x.f[k].t = "obj"
           THEN Ret(Cardinality(UNION {DOMAIN x.f[k].f : k \in DOMAIN x.f}))
           ELSE Raise(Exc("ValueError", "Mixing dicts with non-Series"))
      [] OTHER -> Raise(Exc("ValueError", "DataFrame constructor not properly called!"))

\* the rendering without the table of the transactions
RenderResult_NoTable(res) ==
    IF "error" \in DOMAIN res
    THEN <<[w |-> "error", msg |-> <<"Error processing transactions: ">> \o res.error]>>
    ELSE <<[w |-> "success", msg |-> <<"Successfully processed transactions">>],
           [w |-> "download_button", file_name |-> "transactions.json"]>>

\* what the script shows for a result, from `if "error" in result` on
RenderResult(res) ==
    IF "error" \in DOMAIN res
    THEN <<[w |-> "error", msg |-> <<"Error processing transactions: ">> \o res.error]>>
    ELSE <<[w |-> "success", msg |-> <<"Successfully processed transactions">>]>>
         \o IF "data" \in DOMAIN res /\ Truthy(res.data)
            THEN LET txs == GetItem(res.data, "transactions")
                     df == IF txs.c = "raise" THEN txs ELSE DataFrame(txs.v)
                 IN  IF df.c = "raise"
                     THEN <<[w |-> "error",
                             msg |-> <<"Error creating dataframe: ", df.e.str>>]>>
                     ELSE <<[w |-> "subheader", msg |-> <<"Transactions">>],
                            [w |-> "dataframe", rows |-> df.v],
                            [w |-> "download_button", file_name |-> "transactions.json"]>>
            ELSE <<[w |-> "warning",
                    msg |-> <<"No transactions were extracted from the document">>]>>

\* the script's output once process_bank_transactions has returned
Render(s) ==
    /\ pc[s] = "returned"
    /\ shown' = [shown EXCEPT ![s] =
                    <<[w |-> "text_area", value |-> extracted_text[s]],
                      [w |-> "json", body |-> result[s]]>>
                    \o RenderResult(result[s])]
    /\ pc' = [pc EXCEPT ![s] = "rendered"]
    /\ UNCHANGED <<env, temp_pdf, last_request, extract_vars, request_vars, result, raised>>

\* nothing of a run is kept for the next one
Reset(s) ==
    /\ pc' = [pc EXCEPT ![s] = "idle"]
    /\ uploaded_files' = [uploaded_files EXCEPT ![s] = <<>>]
    /\ file_idx' = [file_idx EXCEPT ![s] = 0]
    /\ text' = [text EXCEPT ![s] = <<>>]
    /\ extracted_text' = [extracted_text EXCEPT ![s] = <<>>]
    /\ url' = [url EXCEPT ![s] = <<>>]
    /\ payload' = [payload EXCEPT ![s] = None]
    /\ elapsed' = [elapsed EXCEPT ![s] = 0]
    /\ requests_sent' = [requests_sent EXCEPT ![s] = 0]
    /\ response' = [response EXCEPT ![s] = None]
    /\ response_data' = [response_data EXCEPT ![s] = None]
    /\ result' = [result EXCEPT ![s] = <<>>]
    /\ raised' = [raised EXCEPT ![s] = None]
    /\ shown' = [shown EXCEPT ![s] = <<>>]

\* the session's script is run again
Rerun(s) ==
    /\ pc[s] \in {"rendered", "crashed", "raised"}
    /\ Reset(s)
    /\ UNCHANGED <<env, temp_pdf, last_request>>

\* the same, with the run's request kept as history
RerunRecorded(s) ==
    /\ pc[s] \in {"rendered", "crashed", "raised"}
    /\ Reset(s)
    /\ last_request' = IF payload[s] = None THEN last_request
                       ELSE [text |-> extracted_text[s], url |-> url[s],
                             payload |-> payload[s]]
    /\ UNCHANGED <<env, temp_pdf>>

\* the server is started again with another environment
Redeploy ==
    /\ \A s \in Sessions : pc[s] = "idle"
    /\ env' \in Envs \ {env}
    /\ UNCHANGED <<temp_pdf, last_request, pc, extract_vars, request_vars, result,
                   raised, shown>>

\* ------------------------------------------------------ the specifications
\* the steps the script takes by itself, and the clock
Program(s) ==
    \/ WriteTemp(s) \/ Convert(s) \/ Remove(s) \/ Build(s) \/ Post(s)
    \/ Tick(s) \/ TimeoutExpires(s) \/ ReadResponse(s) \/ ParseContent(s) \/ Render(s)

\* one session, one run after the other, every answer of the service
Next ==
    \/ Upload(1, Uploads) \/ Program(1) \/ PostFails(1) \/ Respond(1, Responses)
    \/ Rerun(1)

Spec == Init /\ [][Next]_vars

\* the same with uploads of one file
NextOneFile ==
    \/ Upload(1, {<<d>> : d \in Docs}) \/ Program(1) \/ PostFails(1)
    \/ Respond(1, Responses) \/ Rerun(1)

\* the script's thread keeps running and time keeps passing; the user and
\* the inference service owe nothing
FairSpec == Init /\ [][NextOneFile]_vars /\ WF_vars(Program(1))

\* the answer kept where two sessions run side by side
SessionResponses ==
    {[status |-> 200,
      body |-> JObj([model |-> JStr("phi4"),
                     message |-> JObj([role |-> JStr("assistant"),
                                       content |-> JText(Encode(Statement(<<Salary>>)))])])]}

\* two sessions of the same server, each in its own thread, one run each,
\* with a service that answers or lets the request time out
NextSessions ==
    \E s \in Sessions :
        Upload(s, Uploads) \/ Program(s) \/ Respond(s, SessionResponses)

SpecSessions == Init /\ [][NextSessions]_vars

\* one session whose runs are recorded, on a server that is started again
\* with other environments; the service answers, fails or lets time out
RunResponses ==
    SessionResponses \cup {[status |-> 500, body |-> JObj([error |-> JStr("model not found")])]}

NextRuns ==
    \/ Upload(1, Uploads) \/ Program(1) \/ PostFails(1) \/ Respond(1, RunResponses)
    \/ RerunRecorded(1) \/ Redeploy

SpecRuns == Init /\ [][NextRuns]_vars

\* ================================================================ claims
Returned(s) == pc[s] \in {"returned", "rendered"}
Answered(s) == response[s] # None /\ response[s].c = "return"
HasMessage(b) == b # NotJson /\ b.t = "obj" /\ "message" \in DOMAIN b.f
HasContent(b) ==
    HasMessage(b) /\ b.f.message.t = "obj" /\ "content" \in DOMAIN b.f.message.f
\* the service answered 200 with message.content = c
ContentIs(s, c) ==
    /\ Answered(s)
    /\ response[s].v.status = 200
    /\ HasContent(response[s].v.body)
    /\ response[s].v.body.f.message.f.content = c

\* every way requests.post can end
AllOutcomes ==
    {Raise(e) : e \in TimeoutExceptions \cup PostExceptions} \cup {Ret(r) : r \in Responses}

ParseError == [error |-> <<"Failed to parse model response as JSON">>]
MalformedError == [error |-> <<"Unexpected response format from model">>]
TimeoutError == [error |-> <<"Request timed out connecting to Ollama">>]
ConnectError == [error |-> <<"Failed to connect to Ollama server">>]

\* C1: process_bank_transactions never lets an exception escape: whatever
\* the inference call ends with (timeout, connection failure, HTTP error, a
\* body that is not JSON, no message, no content, a content that is no str or
\* no JSON), the function returns, and what it returns has an 'error' or a
\* 'data' key.
AlwaysReturns == \A o \in AllOutcomes : process_bank_transactions(o).c = "return"

C1_NoExceptionEscapes ==
    /\ AlwaysReturns
    /\ \A s \in Sessions :
          /\ pc[s] # "raised"
          /\ Returned(s) => \/ "error" \in DOMAIN result[s]
                            \/ "data" \in DOMAIN result[s]

\* a content that is no str made json.loads raise a TypeError, and the
\* function returned an error descriptor
C1_Witness ==
    \E s \in Sessions :
        /\ pc[s] = "returned"
        /\ ContentIs(s, JNull)
        /\ result[s] = [error |-> <<"Unexpected error: ",
                                    "the JSON object must be str, bytes or bytearray">>]

\* transport succeeded and the payload lacks message, or content inside it
Malformed(c) ==
    /\ c.c = "return"
    /\ c.v.status = 200
    /\ c.v.body # NotJson
    /\ c.v.body.t = "obj"
    /\ \/ "message" \notin DOMAIN c.v.body.f
       \/ /\ c.v.body.f.message.t = "obj"
          /\ "content" \notin DOMAIN c.v.body.f.message.f

\* C2: the failure classes are told apart: a timeout gives "Request timed
\* out connecting to Ollama", a connection failure its own descriptor, and
\* every response that lacks message or message.content the
\* malformed-response descriptor, never the one of an unexpected exception.
C2_FailureClassesDistinct ==
    \A s \in Sessions :
        (Returned(s) /\ response[s] # None) =>
            LET c == response[s] IN
            /\ (c.c = "raise" /\ IsInstance(c.e, "Timeout")) => result[s] = TimeoutError
            /\ (c.c = "raise" /\ ~IsInstance(c.e, "Timeout")
                              /\ IsInstance(c.e, "ConnectionError"))
                   => result[s] = ConnectError
            /\ Malformed(c) => result[s] = MalformedError

\* C3: content that parses and breaks the schema (no account_holder, a type
\* that is neither CREDIT nor DEBIT, an amount that is no number) gives an
\* error result, never a 'data' result.
C3_SchemaViolationRejected ==
    \A s \in Sessions :
        \A v \in SchemaViolations :
            (Returned(s) /\ ContentIs(s, JText(Encode(v)))) =>
                /\ "error" \in DOMAIN result[s]
                /\ "data" \notin DOMAIN result[s]

\* the outcomes of the transport errors and of the responses without message
TransportOrMalformed ==
    {Raise(e) : e \in TimeoutExceptions \cup PostExceptions}
    \cup {Ret(r) : r \in {x \in Responses : x.status = 200 /\ x.body # NotJson
                                            /\ x.body.t = "obj"
                                            /\ "message" \notin DOMAIN x.body.f}}

\* C4: content that is no JSON gives the parse-error result, which is the
\* result of no transport error and of no response without message; the
\* function does not raise and returns no 'data'.
C4_ParseErrorDistinct ==
    \A s \in Sessions :
        \A bad \in BadTexts :
            ContentIs(s, JText(bad)) =>
                /\ pc[s] # "raised"
                /\ Returned(s) =>
                      /\ result[s] = ParseError
                      /\ "data" \notin DOMAIN result[s]
                      /\ \A o \in TransportOrMalformed :
                            process_bank_transactions(o) # Ret(result[s])

\* the content "not valid json" was answered and the function returned
C4_Witness ==
    \E s \in Sessions :
        /\ pc[s] = "returned"
        /\ ContentIs(s, JText(NotValidJson))
        /\ result[s] = ParseError

\* what the script shows for the result, after the text and the API response
Outcome(s) == SubSeq(shown[s], 3, Len(shown[s]))

EmptyStatement == Statement(<<>>)

\* C5: valid content with no transactions is a success: a 'data' result
\* without 'error', no error message shown, zero transactions reported (a
\* table of no rows, or the no-transactions warning), and what is shown
\* differs from what is shown for every error result and for every
\* successful extraction with transactions.
C5_EmptyIsSuccess ==
    \A s \in Sessions :
        (pc[s] = "rendered" /\ ContentIs(s, JText(Encode(EmptyStatement)))) =>
            /\ "data" \in DOMAIN result[s]
            /\ "error" \notin DOMAIN result[s]
            /\ \A k \in DOMAIN Outcome(s) : Outcome(s)[k].w # "error"
            /\ \E k \in DOMAIN Outcome(s) :
                  \/ Outcome(s)[k].w = "warning"
                  \/ Outcome(s)[k].w = "dataframe" /\ Outcome(s)[k].rows = 0
            /\ \A o \in AllOutcomes :
                  LET r == process_bank_transactions(o).v IN
                  (\/ "error" \in DOMAIN r
                   \/ /\ "data" \in DOMAIN r
                      /\ r.data \in Statements
                      /\ r.data # EmptyStatement)
                      => RenderResult(r) # Outcome(s)

\* the empty statement was answered and rendered as a table of no rows
C5_Witness ==
    \E s \in Sessions :
        /\ pc[s] = "rendered"
        /\ ContentIs(s, JText(Encode(EmptyStatement)))
        /\ Outcome(s)[1].w = "success"
        /\ Outcome(s)[3] = [w |-> "dataframe", rows |-> 0]

\* C6: round trip: when the content is the JSON text of a statement that
\* matches the schema, the result's data is that statement: same account
\* holder, same transactions, same count, same field values, same order.
C6_RoundTrip ==
    \A s \in Sessions :
        \A st \in Statements :
            (Returned(s) /\ ContentIs(s, JText(Encode(st)))) =>
                /\ result[s] = [data |-> st]
                /\ result[s].data.f.account_holder = st.f.account_holder
                /\ Len(result[s].data.f.transactions.a) = Len(st.f.transactions.a)
                /\ \A k \in DOMAIN st.f.transactions.a :
                      result[s].data.f.transactions.a[k] = st.f.transactions.a[k]

\* a statement of two different transactions came back in its order
C6_Witness ==
    \E s \in Sessions :
        /\ pc[s] = "returned"
        /\ ContentIs(s, JText(Encode(Statement(<<Salary, Coffee>>))))
        /\ result[s].data.f.transactions.a = <<Salary, Coffee>>

\* the structured data the service's contents hold
StructuredData == Statements \cup SchemaViolations \cup OtherData

\* the terminal state of the attempt that requests.post ended with c
TerminalState(c) ==
    IF c.c = "raise"
    THEN IF IsInstance(c.e, "Timeout") THEN "TIMED_OUT" ELSE "UNREACHABLE"
    ELSE IF /\ c.v.status = 200
            /\ HasContent(c.v.body)
            /\ \E v \in StructuredData : c.v.body.f.message.f.content = JText(Encode(v))
    THEN IF \E v \in Statements : c.v.body.f.message.f.content = JText(Encode(v))
         THEN "VALID"
         ELSE "SCHEMA_INVALID"
    ELSE "MALFORMED"

\* the results of two attempts that end in different states, VALID apart, differ
MessagesDiffer ==
    \A o1, o2 \in AllOutcomes :
        (/\ TerminalState(o1) # "VALID"
         /\ TerminalState(o2) # "VALID"
         /\ TerminalState(o1) # TerminalState(o2))
            => process_bank_transactions(o1) # process_bank_transactions(o2)

\* C7: an attempt ends in one of TIMED_OUT, UNREACHABLE, MALFORMED,
\* SCHEMA_INVALID, VALID; every state but VALID gives an 'error' result,
\* whose message no other such state gives, and only VALID gives 'data'.
C7_StateMachine ==
    /\ MessagesDiffer
    /\ \A s \in Sessions :
          (Returned(s) /\ response[s] # None) =>
              /\ TerminalState(response[s]) # "VALID" => "error" \in DOMAIN result[s]
              /\ "data" \in DOMAIN result[s] => TerminalState(response[s]) = "VALID"

\* C7 without the state SCHEMA_INVALID, the one the code has no step for
C7_ButSchemaInvalid ==
    \A s \in Sessions :
        (Returned(s) /\ response[s] # None
                     /\ TerminalState(response[s]) # "SCHEMA_INVALID") =>
            /\ TerminalState(response[s]) # "VALID" => "error" \in DOMAIN result[s]
            /\ "data" \in DOMAIN result[s] => TerminalState(response[s]) = "VALID"

\* C8: the payload is a function of the document text alone: a run whose
\* text is the text of the run before builds the payload of the run before,
\* whatever that run ended with and whatever OLLAMA_HOST was and is; two
\* sessions with the same text hold the same payload; and the payload is well
\* formed for every text, the empty one too.
C8_PayloadDeterministic ==
    \A s \in Sessions :
        payload[s] # None =>
            /\ (last_request # None /\ last_request.text = extracted_text[s])
                   => payload[s] = last_request.payload
            /\ \A s2 \in Sessions :
                  (payload[s2] # None /\ extracted_text[s2] = extracted_text[s])
                      => payload[s2] = payload[s]
            /\ payload[s].model = "phi4"
            /\ payload[s].stream = FALSE
            /\ payload[s].format = model_json_schema
            /\ Len(payload[s].messages) = 2
            /\ payload[s].messages[1] = [role |-> "system", content |-> SYSTEM_MESSAGE]
            /\ payload[s].messages[2] = [role |-> "user", content |-> extracted_text[s]]

\* a run with the empty text, after a run with the empty text under another
\* OLLAMA_HOST, built the same payload
C8_Witness ==
    \E s \in Sessions :
        /\ payload[s] # None
        /\ last_request # None
        /\ extracted_text[s] = <<>>
        /\ last_request.text = <<>>
        /\ last_request.url # url[s]
        /\ last_request.payload = payload[s]

RECURSIVE OwnText(_)
\* the texts of a submission's own files, in upload order
OwnText(files) ==
    IF files = <<>> THEN <<>> ELSE PdfText(Head(files)) \o OwnText(Tail(files))

\* C9: submissions share nothing: no step of one breaks another, and the
\* text extracted for a submission is the concatenation, in upload order, of
\* the texts of its own files.
C9_SubmissionsIsolated ==
    \A s \in Sessions :
        /\ pc[s] # "crashed"
        /\ pc[s] \in {"build", "post", "awaiting", "responded", "parse", "returned",
                      "rendered"}
              => extracted_text[s] = OwnText(uploaded_files[s])

\* C10: once the request is sent the attempt reaches a result, with an
\* 'error' or a 'data' key, even if the service never answers; one request is
\* sent per attempt, and none after a failure.
C10_AttemptTerminates ==
    /\ (pc[1] = "awaiting")
          ~> (Returned(1) /\ ("error" \in DOMAIN result[1] \/ "data" \in DOMAIN result[1]))
    /\ [](\A s \in Sessions :
              /\ requests_sent[s] <= 1
              /\ Returned(s) => requests_sent[s] = 1)

\* the service never answered, the whole timeout passed, the attempt ended
C10_Witness ==
    /\ pc[1] = "returned"
    /\ elapsed[1] >= timeout
    /\ result[1] = TimeoutError
    /\ requests_sent[1] = 1

====
